---------------------------- MODULE Spec2Model ----------------------------
(***************************************************************************)
(* MEC Library: tutorial filtering, ordering, debounced search and URL     *)
(* state of the materials page (src/unnamed/part_000).                     *)
(*                                                                         *)
(* Strings are sequences of one-character strings, so that toLowerCase,    *)
(* trim, includes and the URLSearchParams codec are computed, not assumed. *)
(* Object references to tutorials are indices into allTutorials.           *)
(***************************************************************************)
EXTENDS Integers, Sequences, FiniteSets, TLC

(***************************************************************************)
(* Bounds of the model                                                     *)
(***************************************************************************)
\* Search input events counted in one burst (the count saturates there).
MaxBurst == 3

\* Amounts (ms) by which the clock advances between two events.
TimeSteps == {100, 300}

\* Elements of class nav-dropdown in the page, each with its toggle.
NavDropdowns == 3

(***************************************************************************)
(* Program constants                                                       *)
(***************************************************************************)
\* setTimeout(..., 300) in handleSearch.
DebounceMs == 300


(***************************************************************************)
(* String primitives of the platform (String.prototype)                    *)
(***************************************************************************)
ToLowerChar(c) == CASE c = "A" -> "a" [] c = "B" -> "b" [] c = "M" -> "m" [] OTHER -> c

toLowerCase(s) == [i \in 1..Len(s) |-> ToLowerChar(s[i])]

RECURSIVE trimStart(_)
trimStart(s) == IF s # <<>> /\ Head(s) = " " THEN trimStart(Tail(s)) ELSE s

RECURSIVE trimEnd(_)
trimEnd(s) == IF s # <<>> /\ s[Len(s)] = " " THEN trimEnd(SubSeq(s, 1, Len(s) - 1)) ELSE s

trim(s) == trimEnd(trimStart(s))

\* s.includes(sub): sub occurs in s as a contiguous substring.
includes(s, sub) == \E i \in 0..(Len(s) - Len(sub)) : SubSeq(s, i + 1, i + Len(sub)) = sub

\* array.some(pred) for arrays of strings, specialised to a substring test.
someIncludes(arr, sub) == \E k \in 1..Len(arr) : includes(toLowerCase(arr[k]), sub)

\* array.includes(x): strict equality membership.
arrayIncludes(arr, x) == \E k \in 1..Len(arr) : arr[k] = x

\* JavaScript truthiness of a string: non-empty.
Truthy(s) == s # <<>>

(***************************************************************************)
(* Numbers and strings: String(number), ToNumber(string), loose equality   *)
(***************************************************************************)
Digits == <<"0", "1", "2", "3", "4", "5", "6", "7", "8", "9">>

IsDigit(c) == \E d \in 1..10 : Digits[d] = c

DigitValue(c) == (CHOOSE d \in 1..10 : Digits[d] = c) - 1

RECURSIVE NumberToString(_)
NumberToString(n) == IF n < 10 THEN <<Digits[n + 1]>> ELSE NumberToString(n \div 10) \o <<Digits[(n % 10) + 1]>>

NaN == -1

RECURSIVE DigitsToNumber(_, _)
DigitsToNumber(s, acc) == IF s = <<>> THEN acc ELSE DigitsToNumber(Tail(s), 10 * acc + DigitValue(Head(s)))

\* ToNumber of a string: whitespace trimmed, "" is 0, decimal digits, else NaN.
StringToNumber(s) == LET t == trim(s) IN IF \A i \in 1..Len(t) : IsDigit(t[i]) THEN DigitsToNumber(t, 0) ELSE NaN

\* number == string (loose equality): the string is converted to a number.
LooseEquals(num, str) == LET n == StringToNumber(str) IN n # NaN /\ n = num

(***************************************************************************)
(* URLSearchParams: application/x-www-form-urlencoded                      *)
(***************************************************************************)
\* Characters the serializer leaves as they are (ASCII alphanumerics here).
Unreserved == {"a", "b", "c", "e", "h", "i", "m", "o", "p", "r", "s", "t", "x", "y", "A", "B", "M"} \cup {Digits[d] : d \in 1..10}

\* The percent code of the other characters of the model's alphabet.
PercentCode(c) == CASE c = "&" -> <<"%", "2", "6">> [] c = "=" -> <<"%", "3", "D">> [] c = "+" -> <<"%", "2", "B">> [] c = "%" -> <<"%", "2", "5">> [] c = "?" -> <<"%", "3", "F">> [] OTHER -> <<"%", "3", "F">>

EncodeChar(c) == IF c = " " THEN <<"+">> ELSE IF c \in Unreserved THEN <<c>> ELSE PercentCode(c)

RECURSIVE urlencode(_)
urlencode(s) == IF s = <<>> THEN <<>> ELSE EncodeChar(Head(s)) \o urlencode(Tail(s))

\* The byte a two-digit hex code stands for, "" when outside the alphabet.
HexByte(h1, h2) == CASE <<h1, h2>> = <<"2", "6">> -> "&" [] <<h1, h2>> = <<"3", "D">> -> "=" [] <<h1, h2>> = <<"3", "d">> -> "=" [] <<h1, h2>> = <<"2", "B">> -> "+" [] <<h1, h2>> = <<"2", "b">> -> "+" [] <<h1, h2>> = <<"2", "5">> -> "%" [] <<h1, h2>> = <<"2", "0">> -> " " [] <<h1, h2>> = <<"3", "F">> -> "?" [] <<h1, h2>> = <<"6", "1">> -> "a" [] OTHER -> ""

RECURSIVE urldecode(_)
urldecode(s) == IF s = <<>> THEN <<>> ELSE IF Head(s) = "+" THEN <<" ">> \o urldecode(Tail(s)) ELSE IF Head(s) = "%" /\ Len(s) >= 3 /\ HexByte(s[2], s[3]) # "" THEN <<HexByte(s[2], s[3])>> \o urldecode(SubSeq(s, 4, Len(s))) ELSE <<Head(s)>> \o urldecode(Tail(s))

\* URLSearchParams.prototype.toString(): name=value pairs joined by "&".
RECURSIVE paramsToString(_)
paramsToString(pairs) == IF pairs = <<>> THEN <<>> ELSE urlencode(pairs[1][1]) \o <<"=">> \o urlencode(pairs[1][2]) \o (IF Len(pairs) > 1 THEN <<"&">> \o paramsToString(Tail(pairs)) ELSE <<>>)

\* The segments of s between occurrences of sep.
RECURSIVE Split(_, _, _)
Split(s, sep, cur) == IF s = <<>> THEN <<cur>> ELSE IF Head(s) = sep THEN <<cur>> \o Split(Tail(s), sep, <<>>) ELSE Split(Tail(s), sep, Append(cur, Head(s)))

\* Index of the first "=" of a segment, 0 when there is none.
FirstEquals(seg) == IF \E i \in 1..Len(seg) : seg[i] = "=" THEN CHOOSE i \in 1..Len(seg) : seg[i] = "=" /\ \A k \in 1..(i - 1) : seg[k] # "=" ELSE 0

ParsePair(seg) == LET e == FirstEquals(seg) IN IF e = 0 THEN <<urldecode(seg), <<>>>> ELSE <<urldecode(SubSeq(seg, 1, e - 1)), urldecode(SubSeq(seg, e + 1, Len(seg)))>>

\* new URLSearchParams(query): a leading "?" is dropped, empty segments skipped.
parseParams(query) == LET q == IF query # <<>> /\ Head(query) = "?" THEN Tail(query) ELSE query
                          segs == SelectSeq(Split(q, "&", <<>>), LAMBDA seg : seg # <<>>)
                      IN [k \in 1..Len(segs) |-> ParsePair(segs[k])]

paramsHas(params, name) == \E k \in 1..Len(params) : params[k][1] = name

\* URLSearchParams.prototype.get: the value of the first pair with that name.
paramsGet(params, name) == params[CHOOSE k \in 1..Len(params) : params[k][1] = name /\ \A l \in 1..(k - 1) : params[l][1] # name][2]

KeySearch == <<"s", "e", "a", "r", "c", "h">>

KeyYear == <<"y", "e", "a", "r">>

KeyTopic == <<"t", "o", "p", "i", "c">>

(***************************************************************************)
(* The data source: documents data/tutorials.json may hold                 *)
(***************************************************************************)
\* A tutorial record of the document; status "" stands for a missing status.
Tutorial(title, authors, year, status, keywords) == [title |-> title, authors |-> authors, year |-> year, status |-> status, keywords |-> keywords]

KwM == <<"m">>

KwT == <<"t">>

\* Eight tutorials over the years 9, 10 and 11 (one, two and more digits
\* apart, so that numeric and lexicographic year order differ), in a load
\* order in which the tiers of year 10 are interleaved.
Catalog == << Tutorial(<<"b">>, <<<<"x">>>>, 10, "regular", <<KwT>>),
              Tutorial(<<"A", "b">>, <<<<"t">>>>, 10, "winner", <<KwM>>),
              Tutorial(<<"a">>, <<<<"x">>, <<"B">>>>, 9, "finalist", <<KwM, KwT>>),
              Tutorial(<<"B", "a">>, <<<<"x">>>>, 10, "finalist", <<KwT>>),
              Tutorial(<<"m">>, <<<<"a">>>>, 10, "winner", <<KwT>>),
              Tutorial(<<"x">>, <<<<"x">>>>, 10, "", <<KwM>>),
              Tutorial(<<"a", "b">>, <<>>, 10, "finalist", <<>>),
              Tutorial(<<"t">>, <<<<"M">>>>, 11, "regular", <<KwM>>) >>

\* A document for the tiers: year 10 has three tutorials of the regular
\* tier (one with no status), a winner, a finalist and one tutorial whose
\* status is none of the three; year 9 has a single regular tutorial and
\* year 11 a winner only.
CatalogTiers == << Tutorial(<<"a">>, <<<<"x">>>>, 10, "regular", <<KwM>>),
                   Tutorial(<<"b">>, <<<<"x">>>>, 10, "winner", <<KwM>>),
                   Tutorial(<<"A", "b">>, <<<<"x">>>>, 10, "", <<KwM>>),
                   Tutorial(<<"a", "m">>, <<<<"x">>>>, 10, "regular", <<KwT>>),
                   Tutorial(<<"m">>, <<<<"a">>>>, 10, "finalist", <<KwT>>),
                   Tutorial(<<"a", "x">>, <<<<"x">>>>, 10, "honorable", <<KwT>>),
                   Tutorial(<<"t">>, <<<<"x">>>>, 9, "regular", <<KwM>>),
                   Tutorial(<<"x">>, <<<<"b">>>>, 11, "winner", <<KwT>>) >>

\* A short document: two years, two topics, one winner and two regular
\* tutorials.
CatalogShort == << Tutorial(<<"a">>, <<<<"x">>>>, 10, "regular", <<KwM>>),
                   Tutorial(<<"A", "b">>, <<<<"x">>>>, 10, "winner", <<KwT>>),
                   Tutorial(<<"m">>, <<<<"a">>>>, 9, "regular", <<KwM>>) >>

\* What fetch('data/tutorials.json') and response.json() can come to.
\*   "ok"        the document parses; tutorials is data.tutorials || []
\*   "reject"    fetch rejects (transport failure); message is the browser's
\*   "http"      response.ok is false
\*   "malformed" response.json() rejects
Source(kind, tutorials, message) == [kind |-> kind, tutorials |-> tutorials, message |-> message]

Sources == { Source("ok", Catalog, ""), Source("ok", <<>>, ""), Source("reject", <<>>, "Failed to fetch"), Source("reject", <<>>, "NetworkError when attempting to fetch resource."), Source("http", <<>>, "HTTP error! status: 404"), Source("malformed", <<>>, "Unexpected token < in JSON at position 0") }

SourcesTiers == { Source("ok", CatalogTiers, ""), Source("reject", <<>>, "Failed to fetch"), Source("http", <<>>, "HTTP error! status: 404"), Source("malformed", <<>>, "Unexpected token < in JSON at position 0") }

SourcesShort == { Source("ok", CatalogShort, ""), Source("reject", <<>>, "Failed to fetch"), Source("malformed", <<>>, "Unexpected token < in JSON at position 0") }

\* What the user can leave in the search box with one input event.
Texts == { <<>>, <<"a">>, <<"A", "b">>, <<" ">>, <<"m", "&", "=">> }

\* location.search of the address the page is opened with.
OriginalQueries == { <<>>,
                     <<"?">> \o KeyYear \o <<"=", "1", "0">>,
                     <<"?">> \o KeyYear \o <<"=", "7", "7">>,
                     <<"?">> \o KeyYear \o <<"=", "a", "b">>,
                     <<"?">> \o KeyTopic \o <<"=", "m", "&", "x", "=", "1">>,
                     <<"?">> \o KeySearch \o <<"=", "A", "+", "%", "2", "6">> }

(***************************************************************************)
(* Filter engine                                                           *)
(***************************************************************************)
\* The search test with the authors and keywords left out.
matchesSearchTitleOnly(tutorial, searchTerm) == ~Truthy(searchTerm) \/ includes(toLowerCase(tutorial.title), searchTerm)

\* The predicate of allTutorials.filter(...) in filterTutorials.
matchesSearch(tutorial, searchTerm) == \/ ~Truthy(searchTerm)
                                       \/ includes(toLowerCase(tutorial.title), searchTerm)
                                       \/ someIncludes(tutorial.authors, searchTerm)
                                       \/ someIncludes(tutorial.keywords, searchTerm)

matchesYear(tutorial, selectedYear) == ~Truthy(selectedYear) \/ LooseEquals(tutorial.year, selectedYear)

matchesTopic(tutorial, selectedTopic) == ~Truthy(selectedTopic) \/ arrayIncludes(tutorial.keywords, selectedTopic)

matches(tutorial, searchTerm, selectedYear, selectedTopic) == matchesSearch(tutorial, searchTerm) /\ matchesYear(tutorial, selectedYear) /\ matchesTopic(tutorial, selectedTopic)

\* References (indices) of the tutorials that pass the filter, in load order.
filterRefs(all, searchValue_, selectedYear, selectedTopic) == LET searchTerm == trim(toLowerCase(searchValue_)) IN SelectSeq([r \in 1..Len(all) |-> r], LAMBDA r : matches(all[r], searchTerm, selectedYear, selectedTopic))

Range(seq) == {seq[k] : k \in 1..Len(seq)}

\* Object.keys of an object with integer-like keys: ascending numeric order.
RECURSIVE ObjectKeys(_)
ObjectKeys(keys) == IF keys = {} THEN <<>> ELSE LET least == CHOOSE k \in keys : \A o \in keys : k <= o IN <<least>> \o ObjectKeys(keys \ {least})

\* s before t in the order of UTF-16 code units, over digit strings.
RECURSIVE StringLess(_, _)
StringLess(s, t) == IF t = <<>> THEN FALSE ELSE IF s = <<>> THEN TRUE ELSE IF Head(s) = Head(t) THEN StringLess(Tail(s), Tail(t)) ELSE DigitValue(Head(s)) < DigitValue(Head(t))

\* A comparator that orders the year keys as strings, descending.
yearComparatorLexicographic(a, b) == IF StringLess(NumberToString(a), NumberToString(b)) THEN 1 ELSE IF StringLess(NumberToString(b), NumberToString(a)) THEN -1 ELSE 0

\* (a, b) => b - a on the year keys.
yearComparator(a, b) == b - a

RECURSIVE InsertSorted(_, _)
InsertSorted(x, sorted) == IF sorted = <<>> THEN <<x>> ELSE IF yearComparator(x, Head(sorted)) < 0 THEN <<x>> \o sorted ELSE <<Head(sorted)>> \o InsertSorted(x, Tail(sorted))

\* Array.prototype.sort with yearComparator.
RECURSIVE sortYears(_)
sortYears(keys) == IF keys = <<>> THEN <<>> ELSE InsertSorted(keys[Len(keys)], sortYears(SubSeq(keys, 1, Len(keys) - 1)))

\* byYear[year]: the references of that year, in the order given.
byYear(all, refs, year) == SelectSeq(refs, LAMBDA r : all[r].year = year)

Swap(arr, i, j) == [arr EXCEPT ![i] = arr[j], ![j] = arr[i]]

\* The loop with j drawn below i only (Math.random() * i).
RECURSIVE fisherYatesBelow(_, _)
fisherYatesBelow(arr, i) == IF i <= 1 THEN {arr} ELSE UNION { fisherYatesBelow(Swap(arr, i, j), i - 1) : j \in 1..(i - 1) }

\* The Fisher-Yates loop from position i down (1-based: i > 1, j in 1..i):
\* every array Math.random can make it end with.
RECURSIVE fisherYates(_, _)
fisherYates(arr, i) == IF i <= 1 THEN {arr} ELSE UNION { fisherYates(Swap(arr, i, j), i - 1) : j \in 1..i }

\* A year group with its tiers in the order of the load but never shuffled
\* apart from the regulars being put first.
groupOrdersRegularsFirst(all, group) == LET winners == SelectSeq(group, LAMBDA r : all[r].status = "winner")
                                            finalists == SelectSeq(group, LAMBDA r : all[r].status = "finalist")
                                            regulars == SelectSeq(group, LAMBDA r : all[r].status = "" \/ all[r].status = "regular")
                                        IN { shuffled \o winners \o finalists : shuffled \in fisherYates(regulars, Len(regulars)) }

\* The orders one year group can come out in: winners, finalists, then the
\* shuffled regulars.
groupOrders(all, group) == LET winners == SelectSeq(group, LAMBDA r : all[r].status = "winner")
                               finalists == SelectSeq(group, LAMBDA r : all[r].status = "finalist")
                               regulars == SelectSeq(group, LAMBDA r : all[r].status = "" \/ all[r].status = "regular")
                           IN { winners \o finalists \o shuffled : shuffled \in fisherYates(regulars, Len(regulars)) }

\* flatMap over the sorted years: every concatenation of one order per year.
RECURSIVE flatMapYears(_, _, _)
flatMapYears(all, refs, years) == IF years = <<>> THEN {<<>>} ELSE { g \o rest : g \in groupOrders(all, byYear(all, refs, Head(years))), rest \in flatMapYears(all, refs, Tail(years)) }

\* Every result shuffleWithinYears(tutorials) can return.
shuffleWithinYears(all, refs) == flatMapYears(all, refs, sortYears(ObjectKeys({all[r].year : r \in Range(refs)})))

(***************************************************************************)
(* Rendering and UI helpers                                                *)
(***************************************************************************)
\* libraryContainer.innerHTML after showLoading().
showLoading == [kind |-> "loading"]

\* libraryContainer.innerHTML after showEmptyState().
showEmptyState == [kind |-> "empty"]

\* libraryContainer.innerHTML after showError(message).
showError(message) == [kind |-> "error", message |-> message]

\* libraryContainer.innerHTML after renderTutorials(tutorials): the empty
\* state, or one section (header and grid of cards) per year, newest first.
renderTutorials(all, refs) == IF Len(refs) = 0 THEN showEmptyState ELSE LET years == sortYears(ObjectKeys({all[r].year : r \in Range(refs)})) IN [kind |-> "results", sections |-> [k \in 1..Len(years) |-> [year |-> years[k], cards |-> byYear(all, refs, years[k])]]]

\* updateResultsCount with the all-shown form left out.
updateResultsCountNoAllForm(count, total) == [form |-> "Showing N of T tutorials", count |-> count, total |-> total]

\* resultsCount.textContent after updateResultsCount(count).
updateResultsCount(count, total) == IF count = total THEN [form |-> "Showing all T tutorials", count |-> count, total |-> total] ELSE [form |-> "Showing N of T tutorials", count |-> count, total |-> total]

\* clearButton.style.display after updateClearButton().
updateClearButton(searchValue_, yearValue_, topicValue_) == IF Truthy(searchValue_) \/ Truthy(yearValue_) \/ Truthy(topicValue_) THEN "inline-block" ELSE "none"

\* The pairs updateURL sets on its URLSearchParams, in order.
urlPairs(searchValue_, yearValue_, topicValue_) == (IF Truthy(searchValue_) THEN <<<<KeySearch, searchValue_>>>> ELSE <<>>) \o (IF Truthy(yearValue_) THEN <<<<KeyYear, yearValue_>>>> ELSE <<>>) \o (IF Truthy(topicValue_) THEN <<<<KeyTopic, topicValue_>>>> ELSE <<>>)

\* updateURL written with the values joined as they are, not encoded.
RECURSIVE joinRaw(_)
joinRaw(pairs) == IF pairs = <<>> THEN <<>> ELSE pairs[1][1] \o <<"=">> \o pairs[1][2] \o (IF Len(pairs) > 1 THEN <<"&">> \o joinRaw(Tail(pairs)) ELSE <<>>)

updateURLUnencoded(searchValue_, yearValue_, topicValue_) == LET query == joinRaw(urlPairs(searchValue_, yearValue_, topicValue_)) IN IF Truthy(query) THEN <<"?">> \o query ELSE <<>>

\* location.search after updateURL(): replaceState to pathname?query, or to
\* the bare pathname when no parameter is set.
updateURL(searchValue_, yearValue_, topicValue_) == LET query == paramsToString(urlPairs(searchValue_, yearValue_, topicValue_)) IN IF Truthy(query) THEN <<"?">> \o query ELSE <<>>

\* The assignment below on an element that keeps any value it is given.
selectValueKept(optionValues, v) == v

\* select.value = v on a select element: the first option with that value
\* becomes the selected one; with no such option none is selected and the
\* value reads back as the empty string.
selectValue(optionValues, v) == IF v = <<>> \/ v \in optionValues THEN v ELSE <<>>

\* Option values populateFilters gives the year select (newest first).
yearOptionValues(all) == LET years == sortYears(ObjectKeys({all[r].year : r \in 1..Len(all)})) IN [k \in 1..Len(years) |-> NumberToString(years[k])]

\* Option values populateFilters gives the topic select (the distinct
\* keywords; their localeCompare order is not observable in the state).
topicOptionValues(all) == UNION { Range(all[r].keywords) : r \in 1..Len(all) }

\* The error text loadTutorials shows for a caught error.
errorMessage(message) == IF message = "Failed to fetch" THEN <<"Cannot load tutorials. Please make sure you are viewing this page through a web server (not file://).", "">> ELSE <<"Failed to load tutorials: ", message>>

(***************************************************************************)
(* State                                                                   *)
(***************************************************************************)
VARIABLES
  allTutorials,      \* let allTutorials: the loaded collection
  filteredTutorials, \* let filteredTutorials: references into allTutorials
  searchDebounce,    \* let searchDebounce: handle of the last timer, 0 for null
  timers,            \* the browser's pending timeouts: [handle, left (ms to go)]
  searchValue,       \* searchInput.value
  yearValue,         \* yearSelect.value
  topicValue,        \* topicSelect.value
  yearOptions,       \* option values of yearSelect besides "" (a sequence)
  topicOptions,      \* option values of topicSelect besides "" (a set)
  libraryHTML,       \* libraryContainer.innerHTML
  resultsText,       \* resultsCount.textContent
  clearDisplay,      \* clearButton.style.display ("" while never set)
  locationSearch,    \* window.location.search
  loadPc,            \* where async loadTutorials stands
  source,            \* what the data source answers in this session
  inputAge,          \* history: ms since the last search input event (saturates
                     \* at the debounce period), -1 if there was none
  lastRun,           \* history: the last run of filterTutorials
  burst,             \* history: the current burst of search input events
  opened,            \* history: the address the page was opened with, until
                     \* the load settles
  navActive          \* the nav dropdowns whose classList holds 'active'

vars == <<allTutorials, filteredTutorials, searchDebounce, timers, searchValue, yearValue, topicValue, yearOptions, topicOptions, libraryHTML, resultsText, clearDisplay, locationSearch, loadPc, source, inputAge, lastRun, burst, opened, navActive>>

\* Variables the filter engine and its side effects write.
engineVars == <<allTutorials, filteredTutorials, libraryHTML, resultsText, clearDisplay, locationSearch, lastRun, burst>>

Fields(search, year, topic) == [known |-> TRUE, search |-> search, year |-> year, topic |-> topic]

NoFields == [known |-> FALSE, search |-> <<>>, year |-> <<>>, topic |-> <<>>]

NoRun == [cause |-> "none", quiet |-> TRUE, effects |-> <<>>, ready |-> FALSE, search |-> <<>>, query |-> <<>>, written |-> NoFields]

NoBurst == [n |-> 0, runs |-> 0, clean |-> FALSE, ready |-> FALSE]

Settled == [loading |-> FALSE, query |-> <<>>, written |-> NoFields]

\* The filter states a user can bring the page to over collection all.
ProducibleFields(all) == { Fields(search, year, topic) : search \in Texts, year \in {<<>>} \cup Range(yearOptionValues(all)), topic \in {<<>>} \cup topicOptionValues(all) }

\* The state a page session starts in: init() has registered the listeners
\* and loadTutorials() has shown the loading state and awaits fetch.
Fresh(src, open) == /\ allTutorials = <<>>
                    /\ filteredTutorials = <<>>
                    /\ searchDebounce = 0
                    /\ timers = {}
                    /\ searchValue = <<>>
                    /\ yearValue = <<>>
                    /\ topicValue = <<>>
                    /\ yearOptions = <<>>
                    /\ topicOptions = {}
                    /\ libraryHTML = showLoading
                    /\ resultsText = [form |-> "", count |-> 0, total |-> 0]
                    /\ clearDisplay \in {"", "none"}
                    /\ locationSearch = open.query
                    /\ loadPc = "awaitFetch"
                    /\ source = src
                    /\ inputAge = -1
                    /\ lastRun = NoRun
                    /\ burst = NoBurst
                    /\ opened = open
                    /\ navActive = {}

\* The page is opened with an address from elsewhere.
Init == \E src \in Sources, query \in OriginalQueries : Fresh(src, [loading |-> TRUE, query |-> query, written |-> NoFields])

\* The page is opened with the address an earlier session over the same
\* source wrote (updateURL) for its filter state s.
InitReopened == \E src \in Sources : \E s \in ProducibleFields(src.tutorials) : Fresh(src, [loading |-> TRUE, query |-> updateURL(s.search, s.year, s.topic), written |-> s])

\* The page is opened with a bare address over a document of SourcesShort.
InitShort == \E src \in SourcesShort : Fresh(src, [loading |-> TRUE, query |-> <<>>, written |-> NoFields])

\* The page is opened with a bare address over a document of SourcesTiers.
InitTiers == \E src \in SourcesTiers : Fresh(src, [loading |-> TRUE, query |-> <<>>, written |-> NoFields])

(***************************************************************************)
(* filterTutorials and the handlers                                        *)
(***************************************************************************)
Min(a, b) == IF a < b THEN a ELSE b

Max(a, b) == IF a > b THEN a ELSE b

\* The order in which renderTutorials touches the page.
renderTutorialsEffects(count) == IF count = 0 THEN <<"showEmptyState", "updateResultsCount">> ELSE <<"renderSections", "updateResultsCount">>

\* The side effects with the clear button updated before the URL.
filterTutorialsEffectsClearFirst(count) == <<"filter", "shuffleWithinYears">> \o renderTutorialsEffects(count) \o <<"updateClearButton", "updateURL">>

\* The order of the statements of filterTutorials.
filterTutorialsEffects(count) == <<"filter", "shuffleWithinYears">> \o renderTutorialsEffects(count) \o <<"updateURL", "updateClearButton">>

\* history: what an engine run does to the record of the current burst.
burstAfterRun(cause) == IF cause = "timer" THEN [burst EXCEPT !.runs = Min(burst.runs + 1, 2)] ELSE [burst EXCEPT !.clean = FALSE]

\* The collection with the tutorials of the result put first in their
\* shuffled order: what is left of it if the run permutes the collection
\* itself instead of copies.
allTutorialsShuffledInPlace(all, shuffled) == IF Len(shuffled) = Len(all) THEN [k \in 1..Len(all) |-> all[shuffled[k]]] ELSE all

\* allTutorials after a run over collection all: the run only reads it;
\* allTutorials.filter and group.filter return fresh arrays, and those are
\* what shuffleWithinYears groups and permutes.
allTutorialsAfterRun(all, shuffled) == all

\* filterTutorials() over collection all with the field values given (the
\* handler that calls it may have just assigned them, and loadTutorials has
\* just assigned all to allTutorials).
filterTutorials(all, searchValue_, yearValue_, topicValue_, cause, ready) ==
  \E shuffled \in shuffleWithinYears(all, filterRefs(all, searchValue_, yearValue_, topicValue_)) :
     /\ allTutorials' = allTutorialsAfterRun(all, shuffled)
     /\ filteredTutorials' = shuffled
     /\ libraryHTML' = renderTutorials(all, shuffled)
     /\ resultsText' = updateResultsCount(Len(shuffled), Len(all))
     /\ locationSearch' = updateURL(searchValue_, yearValue_, topicValue_)
     /\ clearDisplay' = updateClearButton(searchValue_, yearValue_, topicValue_)
     /\ lastRun' = [cause |-> cause, quiet |-> (inputAge = -1 \/ inputAge >= DebounceMs), effects |-> filterTutorialsEffects(Len(shuffled)), ready |-> ready, search |-> searchValue_, query |-> IF cause = "init" THEN locationSearch ELSE <<>>, written |-> IF cause = "init" /\ inputAge = -1 /\ lastRun.cause = "none" THEN opened.written ELSE NoFields]
     /\ burst' = burstAfterRun(cause)

\* A handle no pending timer has.
FreshHandle(pending) == CHOOSE h \in 1..(Cardinality(pending) + 1) : \A t \in pending : t.handle # h

\* handleSearch with the clearTimeout left out.
handleSearchNoCancel == /\ timers' = timers \cup {[handle |-> FreshHandle(timers), left |-> DebounceMs]}
                        /\ searchDebounce' = FreshHandle(timers)

\* handleSearch(): cancel the pending timer, arm a new one.
handleSearch == LET kept == {t \in timers : t.handle # searchDebounce} IN /\ timers' = kept \cup {[handle |-> FreshHandle(kept), left |-> DebounceMs]}
                                                                          /\ searchDebounce' = FreshHandle(kept)

\* history: the burst record after a search input event.
burstAfterInput == IF inputAge = -1 \/ inputAge >= DebounceMs \/ ~burst.clean THEN [n |-> 1, runs |-> 0, clean |-> TRUE, ready |-> (loadPc = "done")] ELSE [burst EXCEPT !.n = Min(burst.n + 1, MaxBurst)]

\* The user edits the search box: an input event, handled by handleSearch.
SearchInput == \E text \in Texts \ {searchValue} :
                  /\ searchValue' = text
                  /\ handleSearch
                  /\ inputAge' = 0
                  /\ burst' = burstAfterInput
                  /\ UNCHANGED <<allTutorials, filteredTutorials, yearValue, topicValue, yearOptions, topicOptions, libraryHTML, resultsText, clearDisplay, locationSearch, loadPc, source, lastRun, opened, navActive>>

\* The browser takes a timeout that is due off its pending ones (to invoke
\* the callback).
DueTimeoutTaken == \E t \in timers : t.left = 0 /\ timers' = timers \ {t}

\* The timeout comes due and its callback returns without a run.
TimerFiresWithoutRun == /\ DueTimeoutTaken
                        /\ UNCHANGED <<engineVars, searchDebounce, searchValue, yearValue, topicValue, yearOptions, topicOptions, loadPc, source, inputAge, opened, navActive>>

\* The debounce timeout comes due and its callback runs filterTutorials.
TimerFires == /\ DueTimeoutTaken
              /\ filterTutorials(allTutorials, searchValue, yearValue, topicValue, "timer", loadPc = "done")
              /\ UNCHANGED <<searchDebounce, searchValue, yearValue, topicValue, yearOptions, topicOptions, loadPc, source, inputAge, opened, navActive>>

\* The user picks another year option: a change event, handled by filterTutorials.
YearChange == \E v \in ({<<>>} \cup Range(yearOptions)) \ {yearValue} :
                 /\ yearValue' = v
                 /\ filterTutorials(allTutorials, searchValue, v, topicValue, "change", loadPc = "done")
                 /\ UNCHANGED <<searchDebounce, timers, searchValue, topicValue, yearOptions, topicOptions, loadPc, source, inputAge, opened, navActive>>

\* The user picks another topic option.
TopicChange == \E v \in ({<<>>} \cup topicOptions) \ {topicValue} :
                  /\ topicValue' = v
                  /\ filterTutorials(allTutorials, searchValue, yearValue, v, "change", loadPc = "done")
                  /\ UNCHANGED <<searchDebounce, timers, searchValue, yearValue, yearOptions, topicOptions, loadPc, source, inputAge, opened, navActive>>

\* clearFilters with the engine run left out.
clearFiltersNoRun == /\ searchValue' = <<>>
                     /\ yearValue' = <<>>
                     /\ topicValue' = <<>>
                     /\ UNCHANGED engineVars

\* clearFilters with the reset of the year select left out.
clearFiltersKeepYear == /\ searchValue' = <<>>
                        /\ yearValue' = yearValue
                        /\ topicValue' = <<>>
                        /\ filterTutorials(allTutorials, <<>>, yearValue, <<>>, "clear", loadPc = "done")

\* clearFilters(): empty the three fields, run filterTutorials.
clearFilters == /\ searchValue' = <<>>
                /\ yearValue' = <<>>
                /\ topicValue' = <<>>
                /\ filterTutorials(allTutorials, <<>>, <<>>, <<>>, "clear", loadPc = "done")

\* The user clicks the clear button (it can be clicked unless hidden); the
\* click, outside every nav dropdown, bubbles on to the document.
ClearClick == /\ clearDisplay # "none"
              /\ clearFilters
              /\ navActive' = {}
              /\ UNCHANGED <<searchDebounce, timers, yearOptions, topicOptions, loadPc, source, inputAge, opened>>

(***************************************************************************)
(* loadTutorials: the steps after each await                               *)
(***************************************************************************)
\* The catch block of loadTutorials: the error state is shown.
loadTutorialsCatch == /\ libraryHTML' = showError(errorMessage(source.message))
                      /\ loadPc' = "failed"
                      /\ burst' = [burst EXCEPT !.clean = FALSE]
                      /\ opened' = Settled
                      /\ UNCHANGED <<allTutorials, filteredTutorials, searchDebounce, timers, searchValue, yearValue, topicValue, yearOptions, topicOptions, resultsText, clearDisplay, locationSearch, source, inputAge, lastRun, navActive>>

\* The field values initializeFromURL() leaves, run right after
\* populateFilters() over collection all: populateFilters has rebuilt both
\* selects, which leaves them on their first option (""); each parameter
\* present in the query is then assigned to its field.
fromURL(all, query, search) ==
  LET params == parseParams(query)
  IN [search |-> IF paramsHas(params, KeySearch) THEN paramsGet(params, KeySearch) ELSE search,
      year |-> IF paramsHas(params, KeyYear) THEN selectValue(Range(yearOptionValues(all)), paramsGet(params, KeyYear)) ELSE <<>>,
      topic |-> IF paramsHas(params, KeyTopic) THEN selectValue(topicOptionValues(all), paramsGet(params, KeyTopic)) ELSE <<>>]

\* initializeFromURL(): assign the fields, then filterTutorials().
initializeFromURL(all) ==
  LET read == fromURL(all, locationSearch, searchValue)
  IN /\ searchValue' = read.search
     /\ yearValue' = read.year
     /\ topicValue' = read.topic
     /\ filterTutorials(all, read.search, read.year, read.topic, "init", TRUE)

\* fetch settles with a response: on to response.json(), or !response.ok throws.
FetchFulfilled == /\ loadPc = "awaitFetch"
                  /\ source.kind \in {"ok", "malformed", "http"}
                  /\ IF source.kind = "http" THEN loadTutorialsCatch ELSE /\ loadPc' = "awaitJson"
                                                                          /\ UNCHANGED <<allTutorials, filteredTutorials, searchDebounce, timers, searchValue, yearValue, topicValue, yearOptions, topicOptions, libraryHTML, resultsText, clearDisplay, locationSearch, source, inputAge, lastRun, burst, opened, navActive>>

\* fetch rejects (transport failure).
FetchRejected == /\ loadPc = "awaitFetch"
                 /\ source.kind = "reject"
                 /\ loadTutorialsCatch

\* response.json() resolves: the collection is stored (allTutorials =
\* data.tutorials || []), the filters are populated and initialised from the
\* URL, the engine runs over the stored collection.
JsonFulfilled == /\ loadPc = "awaitJson"
                 /\ source.kind = "ok"
                 /\ yearOptions' = yearOptionValues(source.tutorials)
                 /\ topicOptions' = topicOptionValues(source.tutorials)
                 /\ initializeFromURL(source.tutorials)
                 /\ loadPc' = "done"
                 /\ opened' = Settled
                 /\ UNCHANGED <<searchDebounce, timers, source, inputAge, navActive>>

\* response.json() rejects (the document does not parse).
JsonRejected == /\ loadPc = "awaitJson"
                /\ source.kind = "malformed"
                /\ loadTutorialsCatch

(***************************************************************************)
(* The environment: time                                                   *)
(***************************************************************************)
\* d ms pass: every pending timeout comes d ms closer to being due (a due
\* timeout may still fire late).
AdvanceTime == \E d \in TimeSteps :
                  /\ timers' = {[t EXCEPT !.left = Max(0, t.left - d)] : t \in timers}
                  /\ inputAge' = IF inputAge = -1 THEN -1 ELSE Min(inputAge + d, DebounceMs)
                  /\ UNCHANGED <<allTutorials, filteredTutorials, searchDebounce, searchValue, yearValue, topicValue, yearOptions, topicOptions, libraryHTML, resultsText, clearDisplay, locationSearch, loadPc, source, lastRun, burst, opened, navActive>>

(***************************************************************************)
(* Navigation dropdowns                                                    *)
(***************************************************************************)
Dropdowns == 1..NavDropdowns

\* The click listener of a toggle with the other dropdowns left as they are.
navToggleKeepOthers(act, dropdown) == IF dropdown \in act THEN act \ {dropdown} ELSE act \cup {dropdown}

\* The click listener of the toggle of dropdown: classList.remove('active')
\* on every other dropdown, then classList.toggle('active') on this one.
navToggle(act, dropdown) == LET others == {other \in Dropdowns : other # dropdown}
                                closed == act \ others
                            IN IF dropdown \in closed THEN closed \ {dropdown} ELSE closed \cup {dropdown}

\* The click listener of the document: e.target.closest('.nav-dropdown') is
\* the dropdown the target lies in, 0 (null) for a target outside them all.
navDocumentClick(act, closest) == IF closest = 0 THEN act \ Dropdowns ELSE act

\* The keydown listener of the document.
navKeyDown(act, key) == IF key = "Escape" THEN act \ Dropdowns ELSE act

\* A click on the toggle of dropdown; stopPropagation keeps it from the
\* document.
NavToggleClick(dropdown) == /\ navActive' = navToggle(navActive, dropdown)
                            /\ UNCHANGED <<allTutorials, filteredTutorials, searchDebounce, timers, searchValue, yearValue, topicValue, yearOptions, topicOptions, libraryHTML, resultsText, clearDisplay, locationSearch, loadPc, source, inputAge, lastRun, burst, opened>>

\* A click elsewhere: in the menu of a dropdown, or outside them all (on no
\* control of the library).
NavDocumentClick(closest) == /\ navActive' = navDocumentClick(navActive, closest)
                             /\ UNCHANGED <<allTutorials, filteredTutorials, searchDebounce, timers, searchValue, yearValue, topicValue, yearOptions, topicOptions, libraryHTML, resultsText, clearDisplay, locationSearch, loadPc, source, inputAge, lastRun, burst, opened>>

\* A key is pressed (one that edits no field).
NavKeyDown(key) == /\ navActive' = navKeyDown(navActive, key)
                   /\ UNCHANGED <<allTutorials, filteredTutorials, searchDebounce, timers, searchValue, yearValue, topicValue, yearOptions, topicOptions, libraryHTML, resultsText, clearDisplay, locationSearch, loadPc, source, inputAge, lastRun, burst, opened>>

ToggleClick == \E dropdown \in Dropdowns : NavToggleClick(dropdown)

DocumentClick == \E closest \in {0} \cup Dropdowns : NavDocumentClick(closest)

KeyDown == \E key \in {"Escape", "Tab"} : NavKeyDown(key)

Next == \/ SearchInput
        \/ YearChange
        \/ TopicChange
        \/ ClearClick
        \/ TimerFires
        \/ FetchFulfilled
        \/ FetchRejected
        \/ JsonFulfilled
        \/ JsonRejected
        \/ AdvanceTime

Spec == Init /\ [][Next]_vars

SpecReopened == InitReopened /\ [][Next]_vars

SpecTiers == InitTiers /\ [][Next]_vars

\* The library events together with those of the navigation.
NextNav == \/ Next
           \/ ToggleClick
           \/ DocumentClick
           \/ KeyDown

\* The page session over the short document, the navigation in use.
SpecNav == InitShort /\ [][NextNav]_vars

\* The page session with what the browser guarantees of timers: time
\* passes, and a timeout that is due is taken and its callback invoked (the
\* step of Next that takes one is TimerFires, which is enabled whenever a
\* timeout is due).
SpecLive == InitShort /\ [][Next]_vars /\ WF_vars(AdvanceTime) /\ WF_timers(DueTimeoutTaken)

(***************************************************************************)
(* Properties                                                              *)
(***************************************************************************)
\* Position of effect e in the log of a run, 0 when it is not there.
Position(effects, e) == IF \E i \in 1..Len(effects) : effects[i] = e THEN CHOOSE i \in 1..Len(effects) : effects[i] = e ELSE 0

Occurrences(effects, e) == Cardinality({i \in 1..Len(effects) : effects[i] = e})

\* The rendering step of a run: the sections, or the empty state.
RenderPosition(effects) == Max(Position(effects, "renderSections"), Position(effects, "showEmptyState"))

\* The references shown by the cards of the page, in page order.
RECURSIVE Cards(_)
Cards(sections) == IF sections = <<>> THEN <<>> ELSE Head(sections).cards \o Cards(Tail(sections))

Displayed == IF libraryHTML.kind = "results" THEN Cards(libraryHTML.sections) ELSE <<>>

\* C1 (as claimed): every run of filterTutorials recomputes the result,
\* renders it, updates the count, updates the clear button and only then
\* writes the URL.
C1_ClearButtonBeforeURL == lastRun.cause # "none" => /\ 0 < Position(lastRun.effects, "filter")
                                                      /\ Position(lastRun.effects, "filter") < RenderPosition(lastRun.effects)
                                                      /\ RenderPosition(lastRun.effects) < Position(lastRun.effects, "updateResultsCount")
                                                      /\ Position(lastRun.effects, "updateResultsCount") < Position(lastRun.effects, "updateClearButton")
                                                      /\ Position(lastRun.effects, "updateClearButton") < Position(lastRun.effects, "updateURL")

\* C1 (amended): every run of filterTutorials performs all five side effects,
\* each once, in the order: recompute the result, render it, update the
\* count, write the URL, and only then update the clear button; the page
\* then shows the stored result, the count of it, and the clear button and
\* the URL of the values the run used.
C1_SideEffectsInCodeOrder == lastRun.cause # "none" => /\ 0 < Position(lastRun.effects, "filter")
                                                        /\ Position(lastRun.effects, "filter") < RenderPosition(lastRun.effects)
                                                        /\ RenderPosition(lastRun.effects) < Position(lastRun.effects, "updateResultsCount")
                                                        /\ Position(lastRun.effects, "updateResultsCount") < Position(lastRun.effects, "updateURL")
                                                        /\ Position(lastRun.effects, "updateURL") < Position(lastRun.effects, "updateClearButton")
                                                        /\ \A e \in {"filter", "updateResultsCount", "updateURL", "updateClearButton"} : Occurrences(lastRun.effects, e) = 1
                                                        /\ Occurrences(lastRun.effects, "renderSections") + Occurrences(lastRun.effects, "showEmptyState") = 1
                                                        /\ Displayed = filteredTutorials
                                                        /\ resultsText.count = Len(filteredTutorials)
                                                        /\ clearDisplay = updateClearButton(lastRun.search, yearValue, topicValue)
                                                        /\ locationSearch = updateURL(lastRun.search, yearValue, topicValue)

\* C1 witness: a dropdown change in Ready has run the engine with a filter
\* active and results to show.
C1_Witness == lastRun.cause = "change" /\ lastRun.ready /\ Truthy(yearValue) /\ libraryHTML.kind = "results" /\ clearDisplay = "inline-block"

\* C2 (as claimed): in Ready no engine run triggered by the timer or by a
\* dropdown change uses a search text whose last input event (in Ready) is
\* less than the debounce period old.
C2_NoRunOnDebouncingText == (lastRun.ready /\ burst.ready /\ lastRun.cause \in {"timer", "change"}) => lastRun.quiet

\* C2 (amended): no engine run triggered by the debounce timer uses a search
\* text whose last input event is less than the debounce period old, and at
\* most one timer is pending; a dropdown change is not debounced.
C2_TimerRunsAfterQuietPeriod == /\ lastRun.cause = "timer" => lastRun.quiet
                                /\ Cardinality(timers) <= 1
                                /\ \A t \in timers : t.handle = searchDebounce /\ (inputAge # -1 /\ t.left + inputAge >= DebounceMs)

\* C2 witness: in Ready the timer has run the engine on a typed text after
\* an input event rescheduled it.
C2_Witness == lastRun.cause = "timer" /\ lastRun.ready /\ lastRun.quiet /\ Truthy(lastRun.search) /\ burst.clean /\ burst.n >= 2

\* C3: a burst of search input events in Ready, each less than the debounce
\* period after the one before and with no other event in between, gets at
\* most one engine run, and that run is the timer's, uses the text of the
\* last event and comes no earlier than the debounce period after it.
C3_OneRunPerBurst == (burst.ready /\ burst.clean) => /\ burst.runs <= 1
                                                     /\ burst.runs = 1 => (lastRun.cause = "timer" /\ lastRun.quiet /\ lastRun.search = searchValue /\ timers = {})
                                                     /\ burst.runs = 0 => (Cardinality(timers) = 1 /\ \A t \in timers : t.handle = searchDebounce /\ t.left + inputAge >= DebounceMs)

\* C3 witness: a burst of three input events in Ready has had its one run.
C3_Witness == burst.ready /\ burst.clean /\ burst.n = MaxBurst /\ burst.runs = 1 /\ Truthy(lastRun.search)

\* C4 (as claimed): while the load is pending, events change neither the
\* loading indicator, the result count, the clear button nor the URL (stated
\* for the search input events, which no markup can have hidden).
C4_EventsBeforeLoadHaveNoEffect == (opened.loading /\ lastRun.cause # "clear") => /\ libraryHTML = showLoading
                                                                                  /\ resultsText.form = ""
                                                                                  /\ clearDisplay # "inline-block"
                                                                                  /\ locationSearch = opened.query

\* C5 (as claimed): once the load has failed the page keeps showing the
\* error state, whatever search input events and timer firings follow.
C5_ErrorIsTerminal == (loadPc = "failed" /\ lastRun.cause # "clear") => libraryHTML.kind = "error"

\* The fields a query string holds, as updateURL writes them.
QueryHolds(query, search, year, topic) == LET params == parseParams(query)
                                          IN /\ paramsHas(params, KeySearch) <=> Truthy(search)
                                             /\ paramsHas(params, KeyYear) <=> Truthy(year)
                                             /\ paramsHas(params, KeyTopic) <=> Truthy(topic)
                                             /\ Truthy(search) => paramsGet(params, KeySearch) = search
                                             /\ Truthy(year) => paramsGet(params, KeyYear) = year
                                             /\ Truthy(topic) => paramsGet(params, KeyTopic) = topic
                                             /\ Len(params) = Cardinality({f \in {1, 2, 3} : Truthy(<<search, year, topic>>[f])})

\* C6: after a successful load, whenever no debounced run is pending, the
\* page shows exactly the tutorials that match the current search, year and
\* topic values, each once, and the URL query holds exactly those values;
\* every run both recomputes the result and writes the URL.
C6_DisplayInSyncWithFields == /\ (loadPc = "done" /\ timers = {}) => /\ Range(Displayed) = Range(filterRefs(allTutorials, searchValue, yearValue, topicValue))
                                                                     /\ Len(Displayed) = Cardinality(Range(Displayed))
                                                                     /\ Displayed = filteredTutorials
                                                                     /\ QueryHolds(locationSearch, searchValue, yearValue, topicValue)
                              /\ lastRun.cause # "none" => (Occurrences(lastRun.effects, "filter") = 1 /\ Occurrences(lastRun.effects, "updateURL") = 1)

\* C6 witness: the debounced run has applied a typed text on top of a year
\* filter and nothing is pending.
C6_Witness == loadPc = "done" /\ timers = {} /\ lastRun.cause = "timer" /\ Truthy(searchValue) /\ Truthy(yearValue) /\ Len(Displayed) > 0 /\ Len(Displayed) < Len(allTutorials)

\* The run of initializeFromURL has just read a year parameter whose value
\* is not the value of any year option.
InitReadUnknownYear == /\ lastRun.cause = "init"
                       /\ paramsHas(parseParams(lastRun.query), KeyYear)
                       /\ Truthy(paramsGet(parseParams(lastRun.query), KeyYear))
                       /\ paramsGet(parseParams(lastRun.query), KeyYear) \notin Range(yearOptions)

\* C7 (as claimed): a year value of the URL that matches no tutorial of a
\* non-empty collection is kept as the year filter, the run matches nothing
\* and the URL keeps the value.
C7_UnknownYearKept == (InitReadUnknownYear /\ Len(allTutorials) > 0) => /\ yearValue = paramsGet(parseParams(lastRun.query), KeyYear)
                                                                        /\ filteredTutorials = <<>>
                                                                        /\ libraryHTML.kind = "empty"
                                                                        /\ paramsHas(parseParams(locationSearch), KeyYear)

\* C7 (amended): a year value of the URL that is the value of no year option
\* is dropped: the year filter reads back empty, the run that follows
\* applies no year restriction (and shows no error), and the year parameter
\* is absent from the URL after the sync.
C7_UnknownYearDropped == InitReadUnknownYear => /\ yearValue = <<>>
                                                /\ Range(filteredTutorials) = Range(filterRefs(allTutorials, lastRun.search, <<>>, topicValue))
                                                /\ libraryHTML.kind \in {"results", "empty"}
                                                /\ ~paramsHas(parseParams(locationSearch), KeyYear)

\* C7 witness: the page was opened with year=77 over the catalog and shows
\* every tutorial.
C7_Witness == InitReadUnknownYear /\ paramsGet(parseParams(lastRun.query), KeyYear) = <<"7", "7">> /\ Len(allTutorials) > 0 /\ Len(filteredTutorials) = Len(allTutorials)

\* C8: a page opened with the address updateURL wrote for a filter state a
\* user can produce, and left alone until the load completes, reads back
\* exactly that state: search, year and topic, a field absent from the
\* query reading back as empty.
C8_URLRoundTrip == (lastRun.cause = "init" /\ lastRun.written.known) => /\ lastRun.search = lastRun.written.search
                                                                        /\ yearValue = lastRun.written.year
                                                                        /\ topicValue = lastRun.written.topic
                                                                        /\ QueryHolds(lastRun.query, lastRun.written.search, lastRun.written.year, lastRun.written.topic)
                                                                        /\ locationSearch = lastRun.query

\* C8 witness: a state with a search text of reserved characters, a year and
\* a topic has been read back.
C8_Witness == lastRun.cause = "init" /\ lastRun.written.known /\ lastRun.search = <<"m", "&", "=">> /\ Truthy(yearValue) /\ Truthy(topicValue)

\* Rank of the tier of a tutorial: winner, finalist, regular or unset.
TierRank(tutorial) == CASE tutorial.status = "winner" -> 0 [] tutorial.status = "finalist" -> 1 [] OTHER -> 2

\* C9: in the stored result and on the page, within every year the winners
\* precede the finalists, which precede the regular or status-less
\* tutorials, and winners (and finalists) keep their load order.
C9_TierOrder == \A shown \in {filteredTutorials, Displayed} : \A i, j \in 1..Len(shown) :
                   (i < j /\ allTutorials[shown[i]].year = allTutorials[shown[j]].year) => /\ TierRank(allTutorials[shown[i]]) <= TierRank(allTutorials[shown[j]])
                                                                                           /\ (TierRank(allTutorials[shown[i]]) = TierRank(allTutorials[shown[j]]) /\ TierRank(allTutorials[shown[i]]) < 2) => shown[i] < shown[j]

\* C9 witness: the whole catalog is shown, with the two regular tutorials
\* of year 10 in the reverse of their load order.
C9_Witness == Len(filteredTutorials) = 8 /\ Position(filteredTutorials, 6) < Position(filteredTutorials, 1)

\* C10: in the stored result the tutorials of one year are contiguous and
\* the years descend numerically; the sections of the page are one per
\* year, in strictly descending numeric order, each with its own year's cards.
C10_YearsDescending == /\ \A i, j \in 1..Len(filteredTutorials) : i < j => allTutorials[filteredTutorials[i]].year >= allTutorials[filteredTutorials[j]].year
                       /\ libraryHTML.kind = "results" => /\ \A k \in 1..(Len(libraryHTML.sections) - 1) : libraryHTML.sections[k].year > libraryHTML.sections[k + 1].year
                                                          /\ \A k \in 1..Len(libraryHTML.sections) : \A c \in 1..Len(libraryHTML.sections[k].cards) : allTutorials[libraryHTML.sections[k].cards[c]].year = libraryHTML.sections[k].year

\* C10 witness: the page shows the sections of the years 11, 10 and 9.
C10_Witness == libraryHTML.kind = "results" /\ Len(libraryHTML.sections) = 3 /\ libraryHTML.sections[1].year = 11 /\ libraryHTML.sections[3].year = 9

\* The strings of a tutorial the search looks into.
SearchedStrings(tutorial) == {tutorial.title} \cup Range(tutorial.authors) \cup Range(tutorial.keywords)

\* text occurs in str, letter case disregarded on both sides.
ContainsIgnoringCase(str, text) == \E i \in 0..(Len(str) - Len(text)) : \A k \in 1..Len(text) : ToLowerChar(str[i + k]) = ToLowerChar(text[k])

\* The AND of the active sub-filters: text is the search text as matched.
SubFiltersHold(tutorial, text, year, topic) == /\ text = <<>> \/ \E str \in SearchedStrings(tutorial) : ContainsIgnoringCase(str, text)
                                               /\ year = <<>> \/ year = NumberToString(tutorial.year)
                                               /\ topic = <<>> \/ topic \in Range(tutorial.keywords)

\* C11 (as claimed): after every engine run in Ready the stored result holds
\* exactly the tutorials that satisfy the AND of the active sub-filters, the
\* search sub-filter being a case-insensitive substring match of the search
\* text as it stands in the box (stated for the runs that have applied a
\* text typed in Ready).
C11_ResultIsRawTextMatch == (lastRun.ready /\ burst.ready /\ burst.runs >= 1) => Range(filteredTutorials) = {r \in 1..Len(allTutorials) : SubFiltersHold(allTutorials[r], lastRun.search, yearValue, topicValue)}

\* C11 (amended): as above with the search text trimmed of leading and
\* trailing whitespace before the match (a whitespace-only text is an
\* inactive search sub-filter), each matching tutorial being there once.
C11_ResultIsTrimmedTextMatch == lastRun.cause # "none" => /\ Range(filteredTutorials) = {r \in 1..Len(allTutorials) : SubFiltersHold(allTutorials[r], trim(lastRun.search), yearValue, topicValue)}
                                                          /\ Len(filteredTutorials) = Cardinality(Range(filteredTutorials))

\* C11 witness: a run in Ready with the three sub-filters active has kept
\* some tutorials and left others out.
C11_Witness == lastRun.ready /\ Truthy(trim(lastRun.search)) /\ Truthy(yearValue) /\ Truthy(topicValue) /\ Len(filteredTutorials) > 0 /\ Len(filteredTutorials) < Len(allTutorials)

\* The winners, then the finalists, of one year of the collection, each in
\* load order.
FixedTiers(all, year) == SelectSeq([r \in 1..Len(all) |-> r], LAMBDA r : all[r].year = year /\ all[r].status = "winner") \o SelectSeq([r \in 1..Len(all) |-> r], LAMBDA r : all[r].year = year /\ all[r].status = "finalist")

\* C12: a clear action in Ready leaves the three fields empty (the search
\* box stays empty until a later input event, which leaves a timer
\* pending) and has run the engine at once: the result holds every
\* tutorial of the collection once, the years descending, each year
\* starting with its winners and finalists in load order followed by the
\* others; the URL has no query and the clear button is hidden.
C12_ClearRestoresDefault == (lastRun.cause = "clear" /\ lastRun.ready) => /\ lastRun.search = <<>> /\ yearValue = <<>> /\ topicValue = <<>>
                                                                          /\ searchValue = <<>> \/ timers # {}
                                                                          /\ Range(filteredTutorials) = 1..Len(allTutorials)
                                                                          /\ Len(filteredTutorials) = Len(allTutorials)
                                                                          /\ \A i, j \in 1..Len(filteredTutorials) : i < j => allTutorials[filteredTutorials[i]].year >= allTutorials[filteredTutorials[j]].year
                                                                          /\ \A r \in 1..Len(allTutorials) : LET year == allTutorials[r].year
                                                                                                                 group == SelectSeq(filteredTutorials, LAMBDA q : allTutorials[q].year = year)
                                                                                                             IN SubSeq(group, 1, Len(FixedTiers(allTutorials, year))) = FixedTiers(allTutorials, year)
                                                                          /\ Displayed = filteredTutorials
                                                                          /\ locationSearch = <<>>
                                                                          /\ clearDisplay = "none"
                                                                          /\ Position(lastRun.effects, "filter") = 1

\* C12 witness: a clear click in Ready, with a typed text still debouncing,
\* has brought back the whole catalog with the regular tutorials of year 10
\* in the reverse of their load order.
C12_Witness == lastRun.cause = "clear" /\ lastRun.ready /\ timers # {} /\ Len(filteredTutorials) = 8 /\ Position(filteredTutorials, 6) < Position(filteredTutorials, 1) /\ searchValue = <<>>

\* C13: after every engine run the count indicator has the form "Showing N
\* of T tutorials" when N # T and "Showing all T tutorials" when N = T, T
\* being the size of the loaded collection and N the number of tutorials
\* that match the field values the run used (0 when all are filtered out;
\* N = T = 0, in the all-shown form, over an empty collection).
C13_CountIndicator == lastRun.cause # "none" => /\ resultsText.total = Len(allTutorials)
                                                /\ resultsText.count = Cardinality({r \in 1..Len(allTutorials) : SubFiltersHold(allTutorials[r], trim(lastRun.search), yearValue, topicValue)})
                                                /\ resultsText.count = Len(Displayed)
                                                /\ resultsText.form = IF resultsText.count = resultsText.total THEN "Showing all T tutorials" ELSE "Showing N of T tutorials"

\* C13 witness: in Ready a typed text has filtered every tutorial of the
\* catalog out, and the indicator reads "Showing 0 of 8 tutorials".
C13_Witness == lastRun.ready /\ lastRun.cause = "timer" /\ resultsText = [form |-> "Showing N of T tutorials", count |-> 0, total |-> 8] /\ libraryHTML.kind = "empty"

\* C14 (as claimed): after every engine run the clear button is visible
\* exactly when at least one of the search, year and topic sub-filters
\* restricts the predicate the run applied (stated for the runs that have
\* applied a text typed in Ready).
C14_ClearButtonIffActiveFilter == (lastRun.ready /\ burst.ready /\ burst.runs >= 1) => (clearDisplay = "inline-block" <=> (Truthy(trim(toLowerCase(lastRun.search))) \/ Truthy(yearValue) \/ Truthy(topicValue)))

\* The message that advises to view the page through a web server.
WebServerAdvice == <<"Cannot load tutorials. Please make sure you are viewing this page through a web server (not file://).", "">>

\* C15 (as claimed): every load failure ends in the error state: the
\* collection is empty, no facet is populated and the fields were not
\* initialised from the URL (initializeFromURL has not run); until an engine
\* run replaces it, the page shows an error message, which for a transport
\* failure is the advice to use a web server and for a non-OK response or a
\* malformed document is another, non-empty one.
C15_LoadFailureShowsError == loadPc = "failed" => /\ allTutorials = <<>> /\ yearOptions = <<>> /\ topicOptions = {}
                                                  /\ yearValue = <<>> /\ topicValue = <<>>
                                                  /\ lastRun.cause # "init"
                                                  /\ lastRun.cause = "none" => /\ libraryHTML.kind = "error"
                                                                               /\ libraryHTML.message[1] # ""
                                                                               /\ source.kind = "reject" => libraryHTML.message = WebServerAdvice
                                                                               /\ source.kind \in {"http", "malformed"} => libraryHTML.message # WebServerAdvice

\* The arrangements of the members of S in a row.
Arrangements(S) == {p \in [1..Cardinality(S) -> S] : \A i, j \in 1..Cardinality(S) : i # j => p[i] # p[j]}

\* The orders the claim allows one year of the matched tutorials: its
\* winners, then its finalists, as matched, then its regular and status-less
\* tutorials in any arrangement.
AllowedYearOrders(all, matched, year) == LET winners == SelectSeq(matched, LAMBDA r : all[r].year = year /\ all[r].status = "winner")
                                             finalists == SelectSeq(matched, LAMBDA r : all[r].year = year /\ all[r].status = "finalist")
                                             regulars == {r \in Range(matched) : all[r].year = year /\ all[r].status \in {"", "regular"}}
                                         IN {winners \o finalists \o p : p \in Arrangements(regulars)}

\* The allowed orders of the years given, newest first.
RECURSIVE AllowedOrders(_, _, _)
AllowedOrders(all, matched, years) == IF years = {} THEN {<<>>} ELSE LET newest == CHOOSE y \in years : \A o \in years : y >= o IN {g \o rest : g \in AllowedYearOrders(all, matched, newest), rest \in AllowedOrders(all, matched, years \ {newest})}

\* C16: on every engine invocation the results shuffleWithinYears can
\* return for the matched tutorials are exactly the orders in which every
\* year keeps its winners and finalists as matched and has its regular tier
\* in some arrangement, every arrangement included; a regular tier of no or
\* one tutorial has one arrangement, itself. The stored result is one of them.
C16_ShuffleScope == lastRun.cause # "none" => LET matched == filterRefs(allTutorials, lastRun.search, yearValue, topicValue)
                                                  allowed == AllowedOrders(allTutorials, matched, {allTutorials[r].year : r \in Range(matched)})
                                              IN /\ shuffleWithinYears(allTutorials, matched) = allowed
                                                 /\ filteredTutorials \in allowed

\* C16 witness: the three regular tutorials of year 10 are shown in the
\* reverse of their load order, after the winner and the finalist.
C16_Witness == /\ lastRun.ready /\ allTutorials = CatalogTiers /\ Len(filteredTutorials) = 7
               /\ SelectSeq(filteredTutorials, LAMBDA r : allTutorials[r].year = 10) = <<2, 5, 4, 3, 1>>
               /\ filteredTutorials[1] = 8 /\ filteredTutorials[7] = 7

\* C17: allTutorials changes only when the load succeeds; once loaded, no
\* event (engine run, shuffle, render, clear, URL write, timer, passing of
\* time) changes its contents or order, and the total T of the count
\* indicator stays the same.
C17_CollectionFrozen == [][/\ allTutorials' # allTutorials => (loadPc = "awaitJson" /\ loadPc' = "done")
                           /\ loadPc = "done" => (allTutorials' = allTutorials /\ resultsText'.total = resultsText.total /\ resultsText.total = Len(allTutorials))]_vars

\* C17 witness: after the load the debounced run has shown the whole
\* catalog with the regular tutorials of year 10 in the reverse of their
\* load order, the catalog being as loaded.
C17_Witness == loadPc = "done" /\ allTutorials = Catalog /\ lastRun.cause = "timer" /\ Len(filteredTutorials) = 8 /\ Position(filteredTutorials, 6) < Position(filteredTutorials, 1)

\* C18: after every step at most one timer is pending and it is the one
\* searchDebounce names; a pending timer leaves only by firing, when due
\* and as the current one, or by being replaced at a search input event (a
\* cancelled timer is gone and cannot fire); every timer run consumes the
\* pending timer; and every engine run is complete within its step, from
\* the filter to the clear button, with the result rendered and the URL
\* written, so that no run begins inside another.
C18_OnePendingInvocation == [][/\ Cardinality(timers') <= 1
                               /\ \A t \in timers' : t.handle = searchDebounce'
                               /\ (timers # {} /\ timers' = {}) => (lastRun'.cause = "timer" /\ \A t \in timers : t.left = 0 /\ t.handle = searchDebounce)
                               /\ (timers # {} /\ timers' # {} /\ \E t \in timers : \A u \in timers' : u.left > t.left) => (inputAge' = 0 /\ lastRun' = lastRun /\ \A u \in timers' : u.left = DebounceMs)
                               /\ (lastRun' # lastRun /\ lastRun'.cause = "timer") => (timers # {} /\ timers' = {})
                               /\ lastRun' # lastRun => /\ lastRun'.effects[1] = "filter"
                                                        /\ lastRun'.effects[Len(lastRun'.effects)] = "updateClearButton"
                                                        /\ libraryHTML' = renderTutorials(allTutorials', filteredTutorials')
                                                        /\ locationSearch' = updateURL(lastRun'.search, yearValue', topicValue')]_vars

\* C18 witness: in Ready a second search input event has just replaced the
\* timer of the first, and one timer is pending with the full period to go.
C18_Witness == loadPc = "done" /\ burst.ready /\ burst.n = 2 /\ inputAge = 0 /\ Cardinality(timers) = 1 /\ \A t \in timers : t.left = DebounceMs /\ t.handle = searchDebounce

\* The page shows the result of the current field values, the search text
\* included, and the URL holds them: the last run has used the text that is
\* in the box.
SearchApplied == /\ lastRun.cause # "none"
                 /\ lastRun.search = searchValue
                 /\ Range(Displayed) = {r \in 1..Len(allTutorials) : SubFiltersHold(allTutorials[r], trim(searchValue), yearValue, topicValue)}
                 /\ QueryHolds(locationSearch, searchValue, yearValue, topicValue)

\* C19 (as claimed): in Ready every search input event is eventually
\* followed by an engine run on the text then in the box, whatever events
\* follow it.
C19_EveryInputEventuallyApplied == (loadPc = "done" /\ inputAge = 0) ~> SearchApplied

\* C19 (amended): time and again either a search input event has just
\* occurred or no debounced run is pending and, in Ready, the page and the
\* URL show the result of the text in the box: once the search input events
\* stop, the final text gets applied, dropdown and clear events not taking
\* the pending run away.
C19_FinalTextEventuallyApplied == []<>(inputAge = 0 \/ (timers = {} /\ (loadPc = "done" => SearchApplied)))

\* C19 witness: in Ready the timer of a search input event has fired and
\* run the engine on the text in the box although a dropdown or clear event
\* came in between.
C19_Witness == loadPc = "done" /\ burst.ready /\ ~burst.clean /\ burst.runs >= 1 /\ lastRun.cause = "timer" /\ timers = {} /\ Truthy(searchValue) /\ SearchApplied

\* C20 (as claimed): whatever the status values of the matched tutorials,
\* the stored result of every run holds each matched tutorial exactly once,
\* and the number of cards on the page and the N of the count indicator are
\* the number of tutorials that match.
C20_NothingLostOrDuplicated == lastRun.cause # "none" => LET matched == {r \in 1..Len(allTutorials) : SubFiltersHold(allTutorials[r], trim(lastRun.search), yearValue, topicValue)}
                                                         IN /\ Range(filteredTutorials) = matched
                                                            /\ Len(filteredTutorials) = Cardinality(matched)
                                                            /\ Len(Displayed) = Cardinality(matched)
                                                            /\ resultsText.count = Cardinality(matched)

\* C21: starting with no dropdown open, at most one nav dropdown is active
\* in every state the events lead to; there, a click on a toggle flips its
\* dropdown and leaves every other one closed, and a click outside every
\* dropdown, like the Escape key, leaves none active.
C21_OneDropdownOpen == /\ Cardinality(navActive) <= 1
                       /\ \A dropdown \in Dropdowns : LET after == navToggle(navActive, dropdown)
                                                      IN /\ dropdown \in after <=> dropdown \notin navActive
                                                         /\ \A other \in Dropdowns \ {dropdown} : other \notin after
                       /\ navDocumentClick(navActive, 0) = {}
                       /\ navKeyDown(navActive, "Escape") = {}

\* C21 witness: with the library loaded, the last dropdown is the one open,
\* as after a click on its toggle while another was open.
C21_Witness == loadPc = "done" /\ navActive = {NavDropdowns} /\ lastRun.cause = "clear"


=============================================================================
